---- MODULE Spec2Model ----
(***************************************************************************)
(* OpenSky ingestion pipeline: the two ingestion scripts of 02_extract.py  *)
(* (insert-or-ignore "append" variant and insert-or-update "upsert"        *)
(* variant with retrying fetch) writing to the table of 01_DB_created.py.  *)
(*                                                                         *)
(* Python values are tagged tuples so that a field can hold a value of any *)
(* type, as the loosely typed JSON arrays of the upstream do:              *)
(*   <<"none">>, <<"int", n>>, <<"float", n>>, <<"str", chars>>,           *)
(*   <<"list">> (a non-empty JSON array).                                  *)
(* A float is carried by an integer stand-in; strings are sequences of     *)
(* one-character strings.                                                  *)
(***************************************************************************)
EXTENDS Integers, Sequences, FiniteSets, TLC

VARIABLES
    policy,             \* which script runs: "ignore" (append) or "update" (upsert)
    pc,                 \* position of the process in __main__ / the cycle function
    now,                \* datetime.now(), in whole fetch intervals (600 s): the
                        \* retry waits of one cycle (62 s at most) do not
                        \* reach the next unit
    end_time,           \* start_time + run duration
    attempt,            \* loop variable of fetch_data_with_retries
    wait_time,          \* last value passed to time.sleep by the retry loop
    data,               \* decoded response of this cycle: [ok, states]
    fetch_time,         \* datetime.utcnow() taken once per cycle
    records_to_insert,  \* list built by the per-record loop
    skipped,            \* counter of the per-record loop
    idx,                \* position of executemany in records_to_insert
    txn,                \* table as seen inside the connection's open transaction
    store,              \* durable (committed) content of opensky_data
    log,                \* messages logged by the current cycle
    requests,           \* history: requests.get calls issued by the current cycle
    pre,                \* history: store when the current cycle began
    outage,             \* history: the store failed on its own during this cycle
    repeat,             \* history: this cycle fetched the batch the previous one
                        \*          fetched, and the previous one met no outage
    waited,             \* seconds the current cycle has spent in time.sleep: the
                        \* cycle's measured duration (other calls take no time)
    sleep_time,         \* seconds of the last time.sleep between two cycles
    unusable,           \* the database cannot be opened, from the start of the
                        \* process on
    lock,               \* holder of SQLite's write lock on the database file:
                        \* 0 (nobody), 1 (this instance), 2 (the second instance)
    pc2,                \* position of a second instance of the script on the same
                        \* database: "off" (not started), "idle", "exec", "commit"
    records2,           \* records_to_insert of the second instance
    idx2,               \* position of its executemany
    txn2,               \* table as seen inside its open transaction
    next2,              \* time at which its sleep ends
    lastc               \* history: the records of the batch committed last, kept
                        \* while two instances run

vars == <<policy, pc, now, end_time, attempt, wait_time, data, fetch_time,
          records_to_insert, skipped, idx, txn, store, log, requests, pre,
          outage, repeat, waited, sleep_time, unusable, lock, pc2, records2,
          idx2, txn2, next2, lastc>>

(***************************************************************************)
(* Bounds of the model and program constants.                              *)
(***************************************************************************)
MaxBatch == 2            \* longest states list the upstream returns
RunIntervals == 2        \* run duration, in fetch intervals (24 h = 144 in the code)
MAX_RETRIES == 5
RETRY_BACKOFF_FACTOR == 2
FETCH_INTERVAL_SECONDS == 600
FIELDS == 17             \* len(state) >= 17

(***************************************************************************)
(* Python values.                                                          *)
(***************************************************************************)
None == <<"none">>
I(n) == <<"int", n>>
F(n) == <<"float", n>>
S(chars) == <<"str", chars>>
L == <<"list">>

IsNone(v) == v[1] = "none"
IsNum(v) == v[1] \in {"int", "float"}
IsStr(v) == v[1] = "str"

\* bool(v)
Truthy(v) ==
    CASE v[1] = "none" -> FALSE
      [] v[1] \in {"int", "float"} -> v[2] # 0
      [] v[1] = "str" -> Len(v[2]) > 0
      [] OTHER -> TRUE

Whitespace == {" "}

RECURSIVE LStrip(_)
LStrip(s) == IF s # <<>> /\ Head(s) \in Whitespace THEN LStrip(Tail(s)) ELSE s

RECURSIVE RStrip(_)
RStrip(s) ==
    IF s # <<>> /\ s[Len(s)] \in Whitespace
    THEN RStrip(SubSeq(s, 1, Len(s) - 1))
    ELSE s

\* str.strip()
Strip(s) == RStrip(LStrip(s))

UpperChar(c) ==
    CASE c = "u" -> "U"
      [] c = "a" -> "A"
      [] c = "l" -> "L"
      [] OTHER -> c

\* str.upper()
Upper(s) == [i \in 1..Len(s) |-> UpperChar(s[i])]

\* Mutant: the bounds themselves are refused
InRange_Strict(lo, v, hi) == lo < v[2] /\ v[2] < hi

\* lo <= v <= hi; raises TypeError on a value that is not a number
InRange(lo, v, hi) == lo <= v[2] /\ v[2] <= hi

\* v in (0, 1)
InZeroOne(v) == IsNum(v) /\ v[2] \in {0, 1}

(***************************************************************************)
(* Per-record step of the cycle function (the body of "for state in        *)
(* states").  A raw observation is the sequence of its fields; field k of  *)
(* the code (0-based) is state[k + 1] here.                                *)
(***************************************************************************)
\* Mutant: the callsign is uppercased but not trimmed
Callsign_NotStripped(state) ==
    IF Truthy(state[2]) THEN <<"str", [i \in 1..Len(state[2][2]) |->
        CASE state[2][2][i] = "u" -> "U" [] state[2][2][i] = "a" -> "A"
          [] state[2][2][i] = "l" -> "L" [] OTHER -> state[2][2][i]]>>
    ELSE <<"none">>

\* state[1].strip().upper() if state[1] else None
CallsignRaises(state) == Truthy(state[2]) /\ ~IsStr(state[2])
Callsign(state) ==
    IF Truthy(state[2]) THEN S(Upper(Strip(state[2][2]))) ELSE None

\* not icao24 or not isinstance(last_contact, int)
KeyInvalid(state) == ~Truthy(state[1]) \/ state[5][1] # "int"

\* Mutant: no value is out of range
OutOfRange_Never(lo, v, hi) == FALSE

\* v is not None and not (lo <= v <= hi), for longitude, latitude, true_track
RangeRaises(v) == ~IsNone(v) /\ ~IsNum(v)
OutOfRange(lo, v, hi) == ~IsNone(v) /\ ~InRange(lo, v, hi)

\* on_ground not in (0, 1) or spi not in (0, 1)
FlagsInvalid(state) == ~InZeroOne(state[9]) \/ ~InZeroOne(state[16])

\* Mutant: only a squawk that is too short is dropped
Squawk_MinLength(state) ==
    IF IsNone(state[15]) THEN None
    ELSE IF Len(Strip(state[15][2])) < 4 THEN None
    ELSE S(Strip(state[15][2]))

\* squawk = squawk.strip(); if len(squawk) != 4: squawk = None
SquawkRaises(state) == ~IsNone(state[15]) /\ ~IsStr(state[15])
Squawk(state) ==
    IF IsNone(state[15]) THEN None
    ELSE IF Len(Strip(state[15][2])) # 4 THEN None
    ELSE S(Strip(state[15][2]))

\* What the loop body does with one observation:
\*   "short"   len(state) < 17: nothing happens, not even a count
\*   "skipped" a validation failed: skipped += 1; continue
\*   "error"   an exception was caught: skipped += 1; continue
\*   "record"  a record is appended to records_to_insert
Verdict(state) ==
    IF Len(state) < FIELDS THEN "short"
    ELSE IF CallsignRaises(state) THEN "error"
    ELSE IF KeyInvalid(state) THEN "skipped"
    ELSE IF RangeRaises(state[6]) THEN "error"
    ELSE IF OutOfRange(-180, state[6], 180) THEN "skipped"
    ELSE IF RangeRaises(state[7]) THEN "error"
    ELSE IF OutOfRange(-90, state[7], 90) THEN "skipped"
    ELSE IF RangeRaises(state[11]) THEN "error"
    ELSE IF OutOfRange(0, state[11], 360) THEN "skipped"
    ELSE IF FlagsInvalid(state) THEN "skipped"
    ELSE IF SquawkRaises(state) THEN "error"
    ELSE "record"

\* The tuple appended to records_to_insert
MkRecord(state, ft) ==
    [icao24 |-> state[1], callsign |-> Callsign(state),
     origin_country |-> state[3], time_position |-> state[4],
     last_contact |-> state[5], longitude |-> state[6],
     latitude |-> state[7], baro_altitude |-> state[8],
     on_ground |-> state[9], velocity |-> state[10],
     true_track |-> state[11], vertical_rate |-> state[12],
     sensors |-> state[13], geo_altitude |-> state[14],
     squawk |-> Squawk(state), spi |-> state[16],
     position_source |-> state[17], fetch_time |-> ft]

\* Mutant: the loop ends at the first observation that is too short
RECURSIVE BuildRecords_StopAtShort(_, _)
BuildRecords_StopAtShort(states, ft) ==
    IF states = <<>> \/ Len(Head(states)) < FIELDS THEN <<>>
    ELSE IF Verdict(Head(states)) = "record"
         THEN <<MkRecord(Head(states), ft)>>
              \o BuildRecords_StopAtShort(Tail(states), ft)
         ELSE BuildRecords_StopAtShort(Tail(states), ft)

\* records_to_insert after the loop over states
RECURSIVE BuildRecords(_, _)
BuildRecords(states, ft) ==
    IF states = <<>> THEN <<>>
    ELSE IF Verdict(Head(states)) = "record"
         THEN <<MkRecord(Head(states), ft)>> \o BuildRecords(Tail(states), ft)
         ELSE BuildRecords(Tail(states), ft)

\* skipped after the loop over states
RECURSIVE CountSkipped(_)
CountSkipped(states) ==
    IF states = <<>> THEN 0
    ELSE (IF Verdict(Head(states)) \in {"skipped", "error"} THEN 1 ELSE 0)
         + CountSkipped(Tail(states))

(***************************************************************************)
(* The table opensky_data of 01_DB_created.py and the two statements that  *)
(* write to it.  A table is the set of its rows.                           *)
(***************************************************************************)
ColumnNames ==
    {"icao24", "callsign", "origin_country", "time_position", "last_contact",
     "longitude", "latitude", "baro_altitude", "on_ground", "velocity",
     "true_track", "vertical_rate", "sensors", "geo_altitude", "squawk",
     "spi", "position_source", "fetch_time"}

\* Columns declared NOT NULL
NotNullColumns ==
    {"icao24", "origin_country", "last_contact", "on_ground", "spi", "fetch_time"}

\* CHECK(col BETWEEN lo AND hi): a NULL passes a CHECK
CheckBetween(lo, v, hi) == IsNone(v) \/ (IsNum(v) /\ lo <= v[2] /\ v[2] <= hi)

\* CHECK(col IN (...))
CheckIn(v, set) == IsNone(v) \/ (IsNum(v) /\ v[2] \in set)

\* sqlite3 binds None, int, float and str; any other type raises
\* ProgrammingError (a sqlite3.Error) from executemany
Unbindable(r) == \E c \in ColumnNames : r[c][1] = "list"

\* NOT NULL and CHECK constraints of CREATE TABLE
ViolatesConstraint(r) ==
    \/ \E c \in NotNullColumns : IsNone(r[c])
    \/ ~CheckBetween(-180, r.longitude, 180)
    \/ ~CheckBetween(-90, r.latitude, 90)
    \/ ~CheckBetween(0, r.true_track, 360)
    \/ ~CheckIn(r.on_ground, {0, 1})
    \/ ~CheckIn(r.spi, {0, 1})
    \/ ~CheckIn(r.position_source, {0, 1, 2})

\* PRIMARY KEY (icao24, last_contact)
SameKey(x, r) == x.icao24 = r.icao24 /\ x.last_contact = r.last_contact

\* Mutant: the table has no primary key, nothing ever conflicts
Conflicting_NoKey(table, r) == {}

Conflicting(table, r) == {x \in table : SameKey(x, r)}

\* One row of executemany raises sqlite3.Error
\*   INSERT OR IGNORE: only a binding error raises
\*   INSERT ... ON CONFLICT DO UPDATE: a NOT NULL or CHECK violation aborts too
RowRaises(pol, r) ==
    Unbindable(r) \/ (pol = "update" /\ ViolatesConstraint(r))

\* Mutant: on a key that exists the row is kept but its fetch_time is refreshed
InsertOrIgnore_Restamp(table, r) ==
    IF ViolatesConstraint(r) THEN table
    ELSE IF Conflicting(table, r) = {} THEN table \cup {r}
    ELSE (table \ Conflicting(table, r))
         \cup {[x EXCEPT !.fetch_time = r.fetch_time] : x \in Conflicting(table, r)}

\* Mutant: INSERT OR REPLACE, the new row takes the place of the old one
InsertOrIgnore_Replace(table, r) ==
    IF ViolatesConstraint(r) THEN table
    ELSE (table \ Conflicting(table, r)) \cup {r}

\* INSERT OR IGNORE INTO opensky_data ...: a row that violates a constraint
\* (NOT NULL, CHECK, PRIMARY KEY) is skipped
InsertOrIgnore(table, r) ==
    IF ViolatesConstraint(r) \/ Conflicting(table, r) # {}
    THEN table
    ELSE table \cup {r}

\* INSERT ... ON CONFLICT(icao24, last_contact) DO UPDATE SET <every other
\* column> = excluded.<column>
\* Mutant: the SET list forgets fetch_time
UpdateSetColumns_NoFetchTime ==
    ColumnNames \ {"icao24", "last_contact", "fetch_time"}

UpdateSetColumns == ColumnNames \ {"icao24", "last_contact"}
Upsert(table, r) ==
    IF Conflicting(table, r) = {}
    THEN table \cup {r}
    ELSE {IF SameKey(x, r)
          THEN [c \in ColumnNames |->
                    IF c \in UpdateSetColumns THEN r[c] ELSE x[c]]
          ELSE x : x \in table}

\* The table after one row of executemany that did not raise
ApplyRow(pol, table, r) ==
    IF pol = "ignore" THEN InsertOrIgnore(table, r) ELSE Upsert(table, r)

\* Mutant: the error path commits what the transaction holds
CloseWithoutCommit_Commits(committed, pending) == pending

\* except sqlite3.Error / finally: conn.close(): the connection is closed
\* without a commit, so the durable table stays as it was committed last
CloseWithoutCommit(committed, pending) == committed

(***************************************************************************)
(* The upstream.  Observations the snapshot endpoint may return: the       *)
(* scenario tuple of the documentation and variations of it.               *)
(***************************************************************************)
Base(icao, velocity) ==
    <<S(<<icao>>), S(<<"u", "a", "l", " ", " ">>), S(<<"US">>), I(1000), I(1005),
      F(-120), F(37), F(10000), I(0), F(velocity), F(90), F(0), None,
      F(10500), S(<<"1", "2", "0", "0">>), I(0), I(0)>>

With(state, k, v) == [state EXCEPT ![k] = v]

ObsA == Base("a", 250)
ObsA2 == Base("a", 300)                 \* same key as ObsA, refreshed velocity
ObsB == Base("b", 250)
ObsShort == SubSeq(Base("b", 250), 1, FIELDS - 1)
ObsBadLat == With(Base("b", 250), 7, F(95))
ObsBadSource == With(Base("c", 250), 17, I(3))
ObsSensors == With(Base("c", 250), 13, L)

Observations ==
    {ObsA, ObsA2, ObsB, ObsShort, ObsBadLat, ObsBadSource, ObsSensors}

Batches == UNION {[1..n -> Observations] : n \in 0..MaxBatch}

\* datetime.utcnow().isoformat(): a string that names the instant t
IsoFormat(t) == <<"str", t>>

\* response.json(): a dict with a "states" list
Response(states) == <<"dict", states>>
States(d) == d[2]

(***************************************************************************)
(* The process: __main__ and the cycle function it calls.                  *)
(*   pc = "loop"     at "while datetime.now() < end_time"                  *)
(*        "connect"  at sqlite3.connect(DB_NAME)                           *)
(*        "fetch"    at requests.get(...)                                  *)
(*        "process"  at "for state in states"                              *)
(*        "exec"     inside cursor.executemany(...)                        *)
(*        "commit"   at conn.commit()                                      *)
(*        "sleep"    the cycle function returned; at time.sleep(...)       *)
(*        "done"     after the while loop                                  *)
(***************************************************************************)
\* Mutant: the retry loop runs one attempt too many
MoreAttempts_OneMore(a) == a + 1 \in 1..(MAX_RETRIES + 1)

\* for attempt in range(1, MAX_RETRIES + 1): is there an attempt after a?
MoreAttempts(a) == a + 1 \in 1..MAX_RETRIES

\* Mutant: a second writer is let in while a write transaction is open
CanWrite_Always(l, self) == TRUE

\* SQLite lets one connection at a time hold the write lock, from the
\* first write of a transaction to its commit or rollback
CanWrite(l, self) == l \in {0, self}

\* the table a statement of instance self works on: its open transaction,
\* or, when the statement opens the transaction, the committed table
TxnTable(l, self, committed, pending) == IF l = self THEN pending ELSE committed

\* Mutant: the handler lets the exception through and the process ends
AfterError_Raised == "done"

\* except ... as e: logging.error(...): the exception is logged and dropped,
\* the cycle function returns to the loop of __main__
AfterError == "sleep"

\* Mutant: a cycle still begins at the end time itself
LoopCondition_Inclusive(t, e) == t <= e

\* while datetime.now() < end_time
LoopCondition(t, e) == t < e

Init ==
    /\ policy \in {"ignore", "update"}
    /\ pc = "loop"
    /\ now = 0
    /\ end_time = RunIntervals
    /\ attempt = 0
    /\ wait_time = 0
    /\ data = None
    /\ fetch_time = None
    /\ records_to_insert = <<>>
    /\ skipped = 0
    /\ idx = 0
    /\ txn = {}
    /\ store = {}
    /\ log = {}
    /\ requests = 0
    /\ pre = {}
    /\ outage = FALSE
    /\ repeat = "no"
    /\ waited = 0
    /\ sleep_time = 0
    /\ unusable \in BOOLEAN
    /\ lock = 0
    /\ pc2 = "off"
    /\ records2 = <<>>
    /\ idx2 = 0
    /\ txn2 = {}
    /\ next2 = 0
    /\ lastc = <<>>

\* while datetime.now() < end_time: the cycle function is called
StartCycle ==
    /\ pc = "loop"
    /\ LoopCondition(now, end_time)
    /\ pc' = IF policy = "ignore" THEN "connect" ELSE "fetch"
    /\ attempt' = 1
    /\ pre' = store
    /\ waited' = 0
    /\ UNCHANGED <<policy, lock, pc2, records2, idx2, txn2, next2, lastc,
                   sleep_time, unusable,
                   now, end_time, wait_time, data, fetch_time,
                   records_to_insert, skipped, idx, txn, store, log, requests,
                   outage, repeat>>

\* the while condition is false: the script logs that it finished
Finish ==
    /\ pc = "loop"
    /\ ~LoopCondition(now, end_time)
    /\ pc' = "done"
    /\ UNCHANGED <<policy, lock, pc2, records2, idx2, txn2, next2, lastc,
                   waited, sleep_time, unusable,
                   now, end_time, attempt, wait_time, data, fetch_time,
                   records_to_insert, skipped, idx, txn, store, log, requests,
                   pre, outage, repeat>>

\* conn = sqlite3.connect(DB_NAME); cursor = conn.cursor()
Connect ==
    /\ pc = "connect"
    /\ ~unusable
    /\ pc' = IF policy = "ignore" THEN "fetch" ELSE "process"
    /\ txn' = store
    /\ UNCHANGED <<policy, lock, pc2, records2, idx2, txn2, next2, lastc,
                   waited, sleep_time, unusable,
                   now, end_time, attempt, wait_time, data, fetch_time,
                   records_to_insert, skipped, idx, store, log, requests, pre,
                   outage, repeat>>

\* the request succeeded and response.json() returned one of the given
\* batches: the rest of the function up to the next database or loop step
FetchOkFrom(batches) ==
    /\ pc = "fetch"
    /\ \E b \in batches :
        /\ data' = Response(b)
        /\ repeat' = IF repeat = "armed" /\ data = Response(b) THEN "yes" ELSE "no"
        /\ IF b = <<>>
           THEN /\ log' = log \cup {"No flight data received."}
                /\ pc' = "sleep"
                /\ UNCHANGED fetch_time
           ELSE /\ log' = log
                /\ pc' = IF policy = "ignore" THEN "process" ELSE "connect"
                /\ fetch_time' = IsoFormat(now)
    /\ requests' = requests + 1
    /\ UNCHANGED <<policy, lock, pc2, records2, idx2, txn2, next2, lastc,
                   waited, sleep_time, unusable,
                   now, end_time, attempt, wait_time, records_to_insert,
                   skipped, idx, txn, store, pre, outage>>

FetchOk == FetchOkFrom(Batches)

\* upsert variant: requests.exceptions.RequestException inside the retry loop
FetchRetry ==
    /\ pc = "fetch"
    /\ policy = "update"
    /\ requests' = requests + 1
    /\ wait_time' = RETRY_BACKOFF_FACTOR ^ attempt
    /\ waited' = waited + wait_time'
    /\ IF MoreAttempts(attempt)
       THEN /\ attempt' = attempt + 1
            /\ log' = log \cup {"Attempt failed. Retrying"}
            /\ UNCHANGED <<pc, data, repeat>>
       ELSE /\ log' = log \cup {"Attempt failed. Retrying",
                                "Max retries reached. Skipping this fetch cycle."}
            /\ data' = None
            /\ repeat' = "no"
            /\ pc' = AfterError
            /\ UNCHANGED attempt
    /\ UNCHANGED <<policy, lock, pc2, records2, idx2, txn2, next2, lastc,
                   sleep_time, unusable,
                   now, end_time, fetch_time, records_to_insert, skipped,
                   idx, txn, store, pre, outage>>

\* append variant: requests.exceptions.RequestException ends the cycle
ApiError ==
    /\ pc = "fetch"
    /\ policy = "ignore"
    /\ requests' = requests + 1
    /\ log' = log \cup {"API error"}
    /\ data' = None
    /\ repeat' = "no"
    /\ pc' = AfterError
    /\ UNCHANGED <<policy, lock, pc2, records2, idx2, txn2, next2, lastc,
                   waited, sleep_time, unusable,
                   now, end_time, attempt, wait_time, fetch_time,
                   records_to_insert, skipped, idx, txn, store, pre, outage>>

\* for state in states: ... ; if records_to_insert: ... else: ...
Process ==
    /\ pc = "process"
    /\ records_to_insert' = BuildRecords(States(data), fetch_time)
    /\ skipped' = CountSkipped(States(data))
    /\ IF records_to_insert' = <<>>
       THEN /\ log' = log \cup {"No valid records"}
            /\ pc' = "sleep"
            /\ idx' = 0
       ELSE /\ log' = log
            /\ pc' = "exec"
            /\ idx' = 1
    /\ UNCHANGED <<policy, lock, pc2, records2, idx2, txn2, next2, lastc,
                   waited, sleep_time, unusable,
                   now, end_time, attempt, wait_time, data, fetch_time,
                   txn, store, requests, pre, outage, repeat>>

\* cursor.executemany(query, records_to_insert), one record
ExecRow ==
    /\ pc = "exec"
    /\ CanWrite(lock, 1)
    /\ LET r == records_to_insert[idx] IN
       IF RowRaises(policy, r)
       THEN /\ log' = log \cup {"Database error"}
            /\ store' = CloseWithoutCommit(store, txn)
            /\ txn' = store'
            /\ lock' = 0
            /\ pc' = AfterError
            /\ UNCHANGED idx
       ELSE /\ txn' = ApplyRow(policy, TxnTable(lock, 1, store, txn), r)
            /\ lock' = 1
            /\ idx' = idx + 1
            /\ pc' = IF idx = Len(records_to_insert) THEN "commit" ELSE "exec"
            /\ UNCHANGED <<log, store>>
    /\ UNCHANGED <<policy, pc2, records2, idx2, txn2, next2, lastc,
                   waited, sleep_time, unusable,
                   now, end_time, attempt, wait_time, data, fetch_time,
                   records_to_insert, skipped, requests, pre, outage, repeat>>

\* conn.commit() and the log line after it
Commit ==
    /\ pc = "commit"
    /\ store' = txn
    /\ lock' = 0
    /\ lastc' = IF pc2 = "off" THEN lastc ELSE records_to_insert
    /\ log' = log \cup {IF policy = "ignore" THEN "Inserted" ELSE "Upserted"}
    /\ pc' = "sleep"
    /\ UNCHANGED <<policy, pc2, records2, idx2, txn2, next2,
                   waited, sleep_time, unusable,
                   now, end_time, attempt, wait_time, data, fetch_time,
                   records_to_insert, skipped, idx, txn, requests, pre, outage,
                   repeat>>

\* connect, executemany or commit raises sqlite3.Error because the database
\* is unreachable, locked or out of space
StoreFails ==
    /\ pc \in {"connect", "exec", "commit"}
    /\ outage' = TRUE
    /\ log' = log \cup {"Database error"}
    /\ store' = CloseWithoutCommit(store, txn)
    /\ txn' = store'
    /\ lock' = IF lock = 1 THEN 0 ELSE lock
    /\ pc' = AfterError
    /\ data' = IF pc = "connect" /\ policy = "ignore" THEN None ELSE data
    /\ UNCHANGED <<policy, pc2, records2, idx2, txn2, next2, lastc,
                   waited, sleep_time, unusable,
                   now, end_time, attempt, wait_time, fetch_time,
                   records_to_insert, skipped, idx, requests, pre, repeat>>

Max(a, b) == IF a >= b THEN a ELSE b

\* the argument of the time.sleep between two cycles: the append variant
\* takes the measured duration of the cycle off the interval, the upsert
\* variant sleeps the whole interval
SleepTime(pol, duration) ==
    IF pol = "ignore"
    THEN Max(0, FETCH_INTERVAL_SECONDS - duration)
    ELSE FETCH_INTERVAL_SECONDS

\* time.sleep(...) between two cycles.  The frame of the cycle function is
\* gone: its locals are cleared.  Of the response only what the history
\* variable repeat needs is kept: the batch of a cycle that met no outage.
Sleep ==
    /\ pc = "sleep"
    /\ sleep_time' = SleepTime(policy, waited)
    /\ now' = now + (waited + sleep_time') \div FETCH_INTERVAL_SECONDS
    /\ waited' = 0
    /\ pc' = "loop"
    /\ attempt' = 0
    /\ wait_time' = 0
    /\ fetch_time' = None
    /\ records_to_insert' = <<>>
    /\ skipped' = 0
    /\ idx' = 0
    /\ txn' = store
    /\ log' = {}
    /\ requests' = 0
    /\ pre' = store
    /\ outage' = FALSE
    /\ repeat' = IF data # None /\ ~outage THEN "armed" ELSE "no"
    /\ data' = IF outage THEN None ELSE data
    /\ UNCHANGED <<policy, end_time, store, unusable, lock, pc2, records2, idx2, txn2, next2, lastc>>

Next ==
    \/ StartCycle
    \/ Finish
    \/ Connect
    \/ FetchOk
    \/ FetchRetry
    \/ ApiError
    \/ Process
    \/ ExecRow
    \/ Commit
    \/ StoreFails
    \/ Sleep

Spec == Init /\ [][Next]_vars

(***************************************************************************)
(* The scheduler on its own: the same process against an upstream that     *)
(* returns at most one observation.  The script is one sequential process  *)
(* and each of its calls returns (the request has a timeout, time.sleep is *)
(* finite): a step that can be taken is taken.                             *)
(***************************************************************************)
SchedBatches == {<<>>, <<ObsA>>, <<ObsBadLat>>, <<ObsBadSource>>}

NextSched ==
    \/ StartCycle
    \/ Finish
    \/ Connect
    \/ FetchOkFrom(SchedBatches)
    \/ FetchRetry
    \/ ApiError
    \/ Process
    \/ ExecRow
    \/ Commit
    \/ StoreFails
    \/ Sleep

SpecSched == Init /\ [][NextSched]_vars /\ WF_vars(NextSched)

(***************************************************************************)
(* Two instances of the script on one database file.  The first instance   *)
(* is the process above; the second runs the same cycle function, taken    *)
(* in the steps that touch the database: its fetch and per-record loop     *)
(* are one step, then executemany record by record, then commit.  Both     *)
(* read the same clock and were started together.  The upstream answers    *)
(* every request.                                                          *)
(***************************************************************************)
TwoBatches ==
    {<<ObsA>>, <<ObsA2, ObsB>>, <<ObsA, ObsA2>>, <<ObsB, ObsBadSource>>,
     <<ObsBadLat>>}

FirstInstance == <<pc, attempt, wait_time, data, fetch_time, records_to_insert,
                   skipped, idx, txn, log, requests, pre, outage, repeat,
                   waited, sleep_time>>

\* the second instance: while datetime.now() < end_time, the request, the
\* loop over states and, with records to write, sqlite3.connect
SecondFetch ==
    /\ pc2 = "idle"
    /\ next2 <= now
    /\ LoopCondition(now, end_time)
    /\ \E b \in TwoBatches :
        /\ records2' = BuildRecords(b, IsoFormat(now))
        /\ IF records2' = <<>>
           THEN /\ next2' = now + 1
                /\ UNCHANGED <<pc2, idx2>>
           ELSE /\ pc2' = "exec"
                /\ idx2' = 1
                /\ UNCHANGED next2
    /\ UNCHANGED <<policy, now, end_time, store, unusable, lock, txn2, lastc,
                   FirstInstance>>

\* the second instance: cursor.executemany(query, records_to_insert), one
\* record
SecondExecRow ==
    /\ pc2 = "exec"
    /\ CanWrite(lock, 2)
    /\ LET r == records2[idx2] IN
       IF RowRaises(policy, r)
       THEN /\ store' = CloseWithoutCommit(store, txn2)
            /\ txn2' = {}
            /\ lock' = 0
            /\ pc2' = "idle"
            /\ next2' = now + 1
            /\ idx2' = 0
            /\ records2' = <<>>
       ELSE /\ txn2' = ApplyRow(policy, TxnTable(lock, 2, store, txn2), r)
            /\ lock' = 2
            /\ idx2' = idx2 + 1
            /\ pc2' = IF idx2 = Len(records2) THEN "commit" ELSE "exec"
            /\ UNCHANGED <<store, next2, records2>>
    /\ UNCHANGED <<policy, now, end_time, unusable, lastc, FirstInstance>>

\* the second instance: conn.commit(), then its sleep
SecondCommit ==
    /\ pc2 = "commit"
    /\ store' = txn2
    /\ lastc' = records2
    /\ lock' = 0
    /\ txn2' = {}
    /\ pc2' = "idle"
    /\ next2' = now + 1
    /\ idx2' = 0
    /\ records2' = <<>>
    /\ UNCHANGED <<policy, now, end_time, unusable, FirstInstance>>

\* the second instance: executemany or commit raises sqlite3.Error (the
\* database is locked past the timeout, or out of space); the connection
\* is closed without commit
SecondFails ==
    /\ pc2 \in {"exec", "commit"}
    /\ store' = CloseWithoutCommit(store, txn2)
    /\ lock' = IF lock = 2 THEN 0 ELSE lock
    /\ txn2' = {}
    /\ pc2' = "idle"
    /\ next2' = now + 1
    /\ idx2' = 0
    /\ records2' = <<>>
    /\ UNCHANGED <<policy, now, end_time, unusable, lastc, FirstInstance>>

InitTwo ==
    /\ policy \in {"ignore", "update"}
    /\ pc = "loop"
    /\ now = 0
    /\ end_time = RunIntervals
    /\ attempt = 0
    /\ wait_time = 0
    /\ data = None
    /\ fetch_time = None
    /\ records_to_insert = <<>>
    /\ skipped = 0
    /\ idx = 0
    /\ txn = {}
    /\ store = {}
    /\ log = {}
    /\ requests = 0
    /\ pre = {}
    /\ outage = FALSE
    /\ repeat = "no"
    /\ waited = 0
    /\ sleep_time = 0
    /\ unusable = FALSE
    /\ lock = 0
    /\ pc2 = "idle"
    /\ records2 = <<>>
    /\ idx2 = 0
    /\ txn2 = {}
    /\ next2 = 0
    /\ lastc = <<>>

NextTwo ==
    \/ StartCycle
    \/ Finish
    \/ Connect
    \/ FetchOkFrom(TwoBatches)
    \/ Process
    \/ ExecRow
    \/ Commit
    \/ StoreFails
    \/ Sleep
    \/ SecondFetch
    \/ SecondExecRow
    \/ SecondCommit
    \/ SecondFails

SpecTwo == InitTwo /\ [][NextTwo]_vars

(***************************************************************************)
(* The per-record step on its own: one observation of a wide range of      *)
(* shapes is fetched, and the rest of the cycle runs on it without a       *)
(* store outage.                                                           *)
(***************************************************************************)
LonValues == {None, F(-181), F(-180), F(0), F(180), F(181), S(<<"x">>)}
LatValues == {None, F(-91), F(-90), F(90), F(91), I(37)}
TrackValues == {None, F(-1), F(0), F(360), F(361)}
SquawkValues ==
    {None, S(<<"1", "2", "0", "0">>), S(<<" ", "1", "2", "0", "0", " ">>),
     S(<<"1", "2">>), S(<<"1", "2", "3", "4", "5">>),
     S(<<" ", " ", " ", " ">>), S(<<>>), I(7700)}

Obs4(lon, lat, tt, sq) ==
    With(With(With(With(ObsA, 6, lon), 7, lat), 11, tt), 15, sq)

RangeObservations ==
    {Obs4(lon, lat, tt, sq) :
        lon \in LonValues, lat \in LatValues, tt \in TrackValues,
        sq \in SquawkValues}

FieldDeviations ==
    {<<1, None>>, <<1, S(<<>>)>>, <<2, None>>, <<2, I(5)>>, <<2, S(<<>>)>>,
     <<3, None>>, <<5, None>>, <<5, F(1005)>>, <<5, S(<<"1">>)>>,
     <<9, None>>, <<9, I(1)>>, <<9, I(2)>>, <<16, None>>, <<16, I(1)>>,
     <<16, I(2)>>, <<13, L>>, <<17, None>>, <<17, I(3)>>}

DeviantObservations ==
    {With(With(ObsA, d[1], d[2]), 15, sq) :
        d \in FieldDeviations, sq \in SquawkValues}

LengthObservations ==
    {SubSeq(o, 1, n) : o \in {ObsA, ObsBadLat}, n \in {0, 7, FIELDS - 1}}
    \cup {Append(ObsA, I(0)), Append(ObsBadLat, I(0))}

CallsignValues ==
    {None, S(<<>>), S(<<" ", " ">>), S(<<"U", "A", "L">>),
     S(<<"u", "a", "l", " ", " ">>), S(<<" ", "u", "a", "l">>),
     S(<<" ", "U", "a", "1", " ">>), S(<<"u", " ", "l">>), I(0), I(5), L}

CallsignObservations ==
    {With(With(ObsA, 2, c), 15, sq) : c \in CallsignValues, sq \in SquawkValues}

WideObservations ==
    RangeObservations \cup DeviantObservations \cup LengthObservations
    \cup CallsignObservations

InitNorm ==
    /\ policy \in {"ignore", "update"}
    /\ pc = "process"
    /\ now = 0
    /\ end_time = RunIntervals
    /\ attempt = 1
    /\ wait_time = 0
    /\ data \in {Response(<<o>>) : o \in WideObservations}
    /\ fetch_time = IsoFormat(0)
    /\ records_to_insert = <<>>
    /\ skipped = 0
    /\ idx = 0
    /\ txn = {}
    /\ store = {}
    /\ log = {}
    /\ requests = 1
    /\ pre = {}
    /\ outage = FALSE
    /\ repeat = "no"
    /\ waited = 0
    /\ sleep_time = 0
    /\ unusable = FALSE
    /\ lock = 0
    /\ pc2 = "off"
    /\ records2 = <<>>
    /\ idx2 = 0
    /\ txn2 = {}
    /\ next2 = 0
    /\ lastc = <<>>

NextNorm ==
    \/ Process
    \/ ExecRow
    \/ Commit

SpecNorm == InitNorm /\ [][NextNorm]_vars

(***************************************************************************)
(* Vocabulary of the properties.                                           *)
(***************************************************************************)
\* The observation passes the validation pipeline of the normalizer as the
\* documentation lists it (17 fields, identity, last_contact, ranges, flags)
\* and its text fields are texts
Acceptable(o) ==
    /\ Len(o) >= FIELDS
    /\ IsStr(o[1]) /\ o[1][2] # <<>>
    /\ IsNone(o[2]) \/ IsStr(o[2])
    /\ o[5][1] = "int"
    /\ IsNone(o[6]) \/ (IsNum(o[6]) /\ o[6][2] \in -180..180)
    /\ IsNone(o[7]) \/ (IsNum(o[7]) /\ o[7][2] \in -90..90)
    /\ IsNone(o[11]) \/ (IsNum(o[11]) /\ o[11][2] \in 0..360)
    /\ o[9] \in {I(0), I(1)}
    /\ o[16] \in {I(0), I(1)}
    /\ IsNone(o[15]) \/ IsStr(o[15])

\* The observation is individually valid beyond doubt: it satisfies every
\* constraint of the CanonicalRecord data model, and no receiver list comes
\* with it (sensors is absent)
WellFormed(o) ==
    /\ Acceptable(o)
    /\ IsStr(o[3])
    /\ IsNone(o[13])
    /\ IsNone(o[17]) \/ o[17] \in {I(0), I(1), I(2)}

\* a number outside [lo, hi]
Outside(lo, v, hi) == IsNum(v) /\ (v[2] < lo \/ v[2] > hi)

Batch == States(data)
KeyOfObs(o) == <<o[1], o[5]>>
KeyOfRow(x) == <<x.icao24, x.last_contact>>
RecordIndexes == 1..Len(records_to_insert)

\* the cycle function returned after a fetch that delivered observations
Fetched == pc = "sleep" /\ data # None /\ Batch # <<>>
\* the per-record loop of this cycle has run
Processed ==
    \/ pc \in {"exec", "commit"}
    \/ Fetched /\ (idx > 0 \/ "No valid records" \in log)
\* conn.commit() of this cycle returned
Committed == pc = "sleep" /\ log \cap {"Inserted", "Upserted"} # {}
\* rows this cycle wrote
WrittenNow == {x \in store : x.fetch_time = fetch_time}

(***************************************************************************)
(* C1.  Upsert cycle: after a fetch that succeeds on attempt N <=          *)
(* MAX_RETRIES, every valid observation of the batch of attempt N is in    *)
(* the store (unless the store itself was out); after MAX_RETRIES failed   *)
(* attempts nothing is written, the store is as before and the skip is     *)
(* logged.                                                                 *)
(***************************************************************************)
C1_CycleYieldsFetchedBatch ==
    (policy = "update" /\ pc = "sleep") =>
        IF data = None
        THEN /\ requests = MAX_RETRIES
             /\ records_to_insert = <<>>
             /\ store = pre
             /\ "Max retries reached. Skipping this fetch cycle." \in log
        ELSE /\ requests = attempt
             /\ attempt <= MAX_RETRIES
             /\ outage \/ \A i \in 1..Len(Batch) :
                    WellFormed(Batch[i]) =>
                        \E x \in WrittenNow : KeyOfRow(x) = KeyOfObs(Batch[i])

(***************************************************************************)
(* C2.  fetch_data_with_retries issues at most MAX_RETRIES requests, none  *)
(* after an attempt succeeded, and when every attempt fails it returns     *)
(* None to the caller, which goes on to the sleep.                         *)
(***************************************************************************)
C2_BoundedRetries ==
    policy = "update" =>
        /\ requests <= MAX_RETRIES
        /\ attempt <= MAX_RETRIES
        /\ pc = "fetch" => requests = attempt - 1
        /\ pc \in {"connect", "process", "exec", "commit"} =>
                data # None /\ requests = attempt
        /\ pc = "sleep" =>
                IF data = None
                THEN /\ requests = MAX_RETRIES
                     /\ wait_time = RETRY_BACKOFF_FACTOR ^ MAX_RETRIES
                     /\ "Max retries reached. Skipping this fetch cycle." \in log
                     /\ "Database error" \notin log
                ELSE requests = attempt

C2_Witness ==
    /\ policy = "update"
    /\ pc = "sleep"
    /\ data = None
    /\ requests = MAX_RETRIES

(***************************************************************************)
(* C3.  Atomic apply: the durable table differs from what it was when the  *)
(* cycle began only once the commit of the whole batch returned; a cycle   *)
(* that logged a database error leaves the table as it was.                *)
(***************************************************************************)
C3_AtomicApply ==
    /\ "Database error" \in log => store = pre
    /\ store # pre =>
        /\ Committed
        /\ store = txn
        /\ \A i \in RecordIndexes :
              \/ ViolatesConstraint(records_to_insert[i])
              \/ \E x \in store : SameKey(x, records_to_insert[i])

\* a failure struck after the first record of the batch had been executed
C3_Witness ==
    /\ pc = "sleep"
    /\ "Database error" \in log
    /\ idx >= 2
    /\ pre # {}
    /\ store = pre

(***************************************************************************)
(* C4.  Insert-or-ignore is idempotent: a cycle that fetches the batch the *)
(* previous cycle fetched (and applied without an outage) leaves the table *)
(* exactly as the previous cycle left it, although its fetch_time is       *)
(* later.                                                                  *)
(***************************************************************************)
C4_IgnoreIdempotent ==
    (policy = "ignore" /\ repeat = "yes") => store = pre

C4_Witness ==
    /\ policy = "ignore"
    /\ repeat = "yes"
    /\ Committed
    /\ store # {}
    /\ \A x \in store : x.fetch_time # fetch_time

(***************************************************************************)
(* C5.  Insert-or-update, after a commit.  As claimed: every record of the *)
(* batch whose key was in the table is the row of that key now, and rows   *)
(* of keys the batch does not carry are as before.                         *)
(***************************************************************************)
C5_EveryRecordOverwrites ==
    (policy = "update" /\ Committed) =>
        /\ \A i \in RecordIndexes :
              Conflicting(pre, records_to_insert[i]) # {} =>
                  records_to_insert[i] \in store
        /\ \A x \in pre :
              (\A i \in RecordIndexes : ~SameKey(x, records_to_insert[i])) =>
                  x \in store

(***************************************************************************)
(* C5, amended.  The row of a key that was in the table equals the LAST    *)
(* record of the batch with that key in every column, fetch_time included, *)
(* and it is the only row of that key; rows of keys the batch does not     *)
(* carry are as before.                                                    *)
(***************************************************************************)
C5_LastRecordOverwrites ==
    (policy = "update" /\ Committed) =>
        /\ \A i \in RecordIndexes :
              (/\ Conflicting(pre, records_to_insert[i]) # {}
               /\ \A j \in RecordIndexes :
                     j > i => ~SameKey(records_to_insert[j], records_to_insert[i]))
              => Conflicting(store, records_to_insert[i]) = {records_to_insert[i]}
        /\ \A x \in pre :
              (\A i \in RecordIndexes : ~SameKey(x, records_to_insert[i])) =>
                  x \in store

\* a committed batch refreshed the velocity of a row of an earlier cycle
C5_Witness ==
    /\ policy = "update"
    /\ Committed
    /\ \E i \in RecordIndexes : \E x \in pre :
          /\ SameKey(x, records_to_insert[i])
          /\ x.velocity # records_to_insert[i].velocity
          /\ x.fetch_time # records_to_insert[i].fetch_time
          /\ records_to_insert[i] \in store
    /\ \E x \in pre : \A i \in RecordIndexes : ~SameKey(x, records_to_insert[i])

(***************************************************************************)
(* C6.  Key uniqueness: the table, durable or inside a transaction, never  *)
(* holds two rows with one (icao24, last_contact).                         *)
(***************************************************************************)
C6_KeyUnique ==
    /\ \A x, y \in store : SameKey(x, y) => x = y
    /\ \A x, y \in txn : SameKey(x, y) => x = y

\* a batch carrying twice a key the table already held was committed
C6_Witness ==
    /\ Committed
    /\ \E i, j \in RecordIndexes :
          /\ i < j
          /\ SameKey(records_to_insert[i], records_to_insert[j])
          /\ records_to_insert[i] # records_to_insert[j]
          /\ Conflicting(pre, records_to_insert[i]) # {}

(***************************************************************************)
(* C7.  An observation of 17 fields or more whose longitude, latitude or   *)
(* true_track is a number outside its range yields no record and nothing   *)
(* is written; with each of the three absent or exactly on a bound (and    *)
(* the rest as in the documented scenario) the record is accepted.         *)
(***************************************************************************)
BoundaryObservations ==
    {Obs4(lon, lat, tt, ObsA[15]) :
        lon \in {None, F(-180), F(180)}, lat \in {None, F(-90), F(90)},
        tt \in {None, F(0), F(360)}}

C7_OutOfRangeRejected ==
    pc # "process" =>
        LET o == Batch[1] IN
        /\ (/\ Len(o) >= FIELDS
            /\ \/ Outside(-180, o[6], 180)
               \/ Outside(-90, o[7], 90)
               \/ Outside(0, o[11], 360))
           => records_to_insert = <<>> /\ txn = {} /\ store = {}
        /\ o \in BoundaryObservations =>
              /\ Len(records_to_insert) = 1
              /\ skipped = 0
              /\ records_to_insert[1].longitude = o[6]
              /\ records_to_insert[1].latitude = o[7]
              /\ records_to_insert[1].true_track = o[11]

C7_Witness ==
    /\ pc = "sleep"
    /\ Len(Batch[1]) >= FIELDS
    /\ Outside(-90, Batch[1][7], 90)
    /\ ~Outside(-180, Batch[1][6], 180)
    /\ records_to_insert = <<>>
    /\ skipped = 1

(***************************************************************************)
(* C8.  An observation of fewer than 17 fields yields no record and no     *)
(* count, and the loop goes on: every acceptable observation of the batch, *)
(* also after a short one, has its record in records_to_insert.            *)
(***************************************************************************)
C8_ShortObservationDropped ==
    Processed =>
        LET long == {i \in 1..Len(Batch) : Len(Batch[i]) >= FIELDS} IN
        /\ Len(records_to_insert) + skipped = Cardinality(long)
        /\ \A i \in long :
              Acceptable(Batch[i]) =>
                  \E j \in RecordIndexes :
                      /\ records_to_insert[j].icao24 = Batch[i][1]
                      /\ records_to_insert[j].velocity = Batch[i][10]
                      /\ records_to_insert[j].fetch_time = fetch_time

C8_Witness ==
    /\ Processed
    /\ Len(Batch) = 2
    /\ Len(Batch[1]) < FIELDS
    /\ Acceptable(Batch[2])
    /\ Len(records_to_insert) = 1
    /\ skipped = 0

(***************************************************************************)
(* C9.  As claimed: an observation that passes the other validations and   *)
(* carries a squawk is accepted, with the trimmed squawk when that has 4   *)
(* characters and with no squawk otherwise.                                *)
(***************************************************************************)
\* the trimmed squawk of the texts of SquawkValues, written out
ExpectedSquawk(v) ==
    IF v \in {S(<<"1", "2", "0", "0">>), S(<<" ", "1", "2", "0", "0", " ">>)}
    THEN S(<<"1", "2", "0", "0">>)
    ELSE None

OthersPass(o) == Acceptable(With(o, 15, None))

C9_SquawkNeverRejects ==
    pc # "process" =>
        LET o == Batch[1] IN
        (Len(o) >= FIELDS /\ OthersPass(o) /\ ~IsNone(o[15])) =>
            /\ Len(records_to_insert) = 1
            /\ records_to_insert[1].squawk = ExpectedSquawk(o[15])

(***************************************************************************)
(* C9, amended.  The above holds of a squawk that is a text; a squawk of   *)
(* another type (a number) makes the observation a counted rejection.      *)
(***************************************************************************)
C9_TextSquawkNeverRejects ==
    pc # "process" =>
        LET o == Batch[1] IN
        (Len(o) >= FIELDS /\ OthersPass(o) /\ ~IsNone(o[15])) =>
            IF IsStr(o[15])
            THEN /\ Len(records_to_insert) = 1
                 /\ skipped = 0
                 /\ records_to_insert[1].squawk = ExpectedSquawk(o[15])
            ELSE records_to_insert = <<>> /\ skipped = 1

\* a squawk of 2 characters was dropped and the record accepted and stored
C9_Witness ==
    /\ pc = "sleep"
    /\ Len(Batch[1]) >= FIELDS
    /\ OthersPass(Batch[1])
    /\ Batch[1][15] = S(<<"1", "2">>)
    /\ Len(records_to_insert) = 1
    /\ \E x \in store : x.squawk = None /\ x.icao24 = Batch[1][1]

(***************************************************************************)
(* C10.  Upsert cycle without an outage: the rows the cycle wrote are      *)
(* those of the individually valid observations of its batch, whatever     *)
(* malformed observations come with them, and the cycle does not fail.     *)
(***************************************************************************)
C10_MalformedAffectsOnlyItself ==
    (policy = "update" /\ Fetched /\ ~outage) =>
        /\ "Database error" \notin log
        /\ {KeyOfRow(x) : x \in WrittenNow}
              = {KeyOfObs(Batch[i]) :
                    i \in {k \in 1..Len(Batch) : WellFormed(Batch[k])}}

(***************************************************************************)
(* C11.  Callsign of an accepted record, as stated: absent when the raw    *)
(* callsign is absent, and otherwise the raw text without its surrounding  *)
(* whitespace and in upper case; no stored callsign has leading or         *)
(* trailing whitespace or a lowercase letter.                              *)
(***************************************************************************)
\* raw callsign text |-> the text trimmed and uppercased, written out
TrimmedUpper ==
    {<<<<>>, <<>>>>,
     <<<<" ", " ">>, <<>>>>,
     <<<<"U", "A", "L">>, <<"U", "A", "L">>>>,
     <<<<"u", "a", "l", " ", " ">>, <<"U", "A", "L">>>>,
     <<<<" ", "u", "a", "l">>, <<"U", "A", "L">>>>,
     <<<<" ", "U", "a", "1", " ">>, <<"U", "A", "1">>>>,
     <<<<"u", " ", "l">>, <<"U", " ", "L">>>>}

Lowercase == {"u", "a", "l"}

Canonical(c) ==
    \/ c = <<"none">>
    \/ /\ c[1] = "str"
       /\ c[2] # <<>> => c[2][1] # " " /\ c[2][Len(c[2])] # " "
       /\ \A i \in 1..Len(c[2]) : c[2][i] \notin Lowercase

\* the single observation of the cycle was accepted by the per-record loop
AcceptedOne ==
    pc # "process" /\ Len(Batch) = 1 /\ Len(records_to_insert) = 1

C11_CallsignTrimmedUpper ==
    /\ AcceptedOne =>
        LET raw == Batch[1][2]
            c == records_to_insert[1].callsign
        IN /\ raw = <<"none">> => c = <<"none">>
           /\ raw[1] = "str" =>
                \E t \in TrimmedUpper : t[1] = raw[2] /\ c = <<"str", t[2]>>
    /\ \A x \in store : Canonical(x.callsign)

(***************************************************************************)
(* C11, amended.  The callsign of an accepted record is absent when the    *)
(* raw callsign is absent, the empty text or the number 0; for any other   *)
(* raw text it is that text without its surrounding whitespace and in      *)
(* upper case (the empty text, not absent, for a raw callsign of spaces    *)
(* only); no stored callsign has leading or trailing whitespace or a       *)
(* lowercase letter.                                                       *)
(***************************************************************************)
C11_CallsignFalsyAbsent ==
    /\ AcceptedOne =>
        LET raw == Batch[1][2]
            c == records_to_insert[1].callsign
        IN /\ raw \in {<<"none">>, <<"str", <<>>>>, <<"int", 0>>} => c = <<"none">>
           /\ (raw[1] = "str" /\ raw[2] # <<>>) =>
                \E t \in TrimmedUpper : t[1] = raw[2] /\ c = <<"str", t[2]>>
           /\ raw[1] \in {"none", "str"} \/ raw = <<"int", 0>>
    /\ \A x \in store : Canonical(x.callsign)

C11_Witness ==
    /\ Committed
    /\ Len(Batch) = 1
    /\ Len(Batch[1]) >= FIELDS
    /\ Batch[1][2] = <<"str", <<" ", "U", "a", "1", " ">>>>
    /\ \E x \in store : x.callsign = <<"str", <<"U", "A", "1">>>>

(***************************************************************************)
(* C12.  The end time is start time + run duration, fixed at the start; a  *)
(* cycle begins only when the time read at the loop check is before the    *)
(* end time; as time advances the scheduler eventually reaches Finished,   *)
(* and from then on no request is issued and the store is not written.     *)
(***************************************************************************)
C12_SchedulerFinishes ==
    /\ [](end_time = 0 + RunIntervals)
    /\ [][(pc = "loop" /\ pc' \in {"connect", "fetch"}) => now < end_time]_vars
    /\ <>(pc = "done")
    /\ [][pc = "done" =>
            (pc' = "done" /\ requests' = requests /\ store' = store
             /\ txn' = txn)]_vars

C12_Witness ==
    pc = "done" /\ now >= end_time /\ requests = 0 /\ store # {}

(***************************************************************************)
(* C13.  A failed cycle does not stop the scheduler: when the fetch gave   *)
(* up or failed, or the store raised an error, the cycle function has      *)
(* returned to the loop, which sleeps as after any cycle, checks the end   *)
(* time and, before the end time, begins the next cycle.                   *)
(***************************************************************************)
FailedCycle ==
    log \cap {"Max retries reached. Skipping this fetch cycle.", "API error",
              "Database error"} # {}

C13_FailedCycleGoesOn ==
    /\ [](FailedCycle => pc = "sleep")
    /\ [](pc = "done" => now >= end_time)
    /\ [][FailedCycle =>
            /\ pc' = "loop"
            /\ now' > now
            /\ sleep_time' \in {FETCH_INTERVAL_SECONDS,
                                FETCH_INTERVAL_SECONDS - waited}]_vars
    /\ FailedCycle ~> (pc = "loop")
    /\ (pc = "loop" /\ now < end_time) ~> (pc \in {"connect", "fetch"})

\* a cycle begins after a cycle that failed
C13_Witness ==
    /\ now > 0
    /\ pc \in {"connect", "fetch"}
    /\ requests = 0
    /\ data = None

(***************************************************************************)
(* C14.  When the database cannot be opened from the start of the process  *)
(* on, the scheduler never enters the cycle loop: no cycle is started and  *)
(* no request is issued.                                                   *)
(***************************************************************************)
C14_UnusableStoreStopsAtStart ==
    unusable => (pc \in {"loop", "done"} /\ now = 0 /\ requests = 0)

(***************************************************************************)
(* C15.  An empty batch is a no-op: when the response carries no           *)
(* observation, or every observation it carries is rejected, the cycle     *)
(* writes nothing (the store is as the cycle found it), logs that there    *)
(* was nothing to store, does not end as a failed cycle unless the store   *)
(* itself was out, and the scheduler goes on to its sleep.                 *)
(***************************************************************************)
NothingToStore ==
    pc = "sleep" /\ data # None /\ \A i \in 1..Len(Batch) : ~Acceptable(Batch[i])

C15_EmptyBatchNoOp ==
    NothingToStore =>
        /\ store = pre
        /\ txn = pre
        /\ records_to_insert = <<>>
        /\ idx = 0
        /\ ~outage =>
            /\ "Database error" \notin log
            /\ IF Batch = <<>>
               THEN "No flight data received." \in log
               ELSE "No valid records" \in log
        /\ ENABLED Sleep

C15_Witness ==
    /\ NothingToStore
    /\ Batch # <<>>
    /\ "No valid records" \in log
    /\ store # {}
    /\ store = pre

(***************************************************************************)
(* C16.  Backoff schedule of the retrying fetch: the wait after failed     *)
(* attempt k is RETRY_BACKOFF_FACTOR^k, and a wait occurs only between two *)
(* attempts, so a fetch whose attempts all fail has waited                 *)
(* RETRY_BACKOFF_FACTOR^1 + ... + RETRY_BACKOFF_FACTOR^(MAX_RETRIES-1) in  *)
(* total when it gives up: it does not wait after its final attempt.       *)
(***************************************************************************)
RECURSIVE BackoffSum(_)
BackoffSum(k) ==
    IF k = 0 THEN 0 ELSE RETRY_BACKOFF_FACTOR ^ k + BackoffSum(k - 1)

C16_WaitsOnlyBetweenAttempts ==
    policy = "update" =>
        /\ (pc = "fetch" /\ attempt > 1) =>
                /\ wait_time = RETRY_BACKOFF_FACTOR ^ (attempt - 1)
                /\ waited = BackoffSum(attempt - 1)
        /\ "Max retries reached. Skipping this fetch cycle." \in log =>
                waited = BackoffSum(MAX_RETRIES - 1)

(***************************************************************************)
(* C17.  Cadence: after every cycle the scheduler sleeps                   *)
(* max(0, FETCH_INTERVAL_SECONDS - cycle_cost), cycle_cost being the       *)
(* measured duration of the cycle with its retry waits, so that two        *)
(* consecutive cycle starts are max(FETCH_INTERVAL_SECONDS, cycle_cost)    *)
(* apart; the sleep is never negative.                                     *)
(***************************************************************************)
C17_SleepIsIntervalLessCost ==
    [][(pc = "sleep" /\ pc' = "loop") =>
        /\ sleep_time' >= 0
        /\ sleep_time' = (IF waited >= FETCH_INTERVAL_SECONDS
                          THEN 0 ELSE FETCH_INTERVAL_SECONDS - waited)
        /\ waited + sleep_time' = (IF waited >= FETCH_INTERVAL_SECONDS
                                   THEN waited ELSE FETCH_INTERVAL_SECONDS)]_vars

(***************************************************************************)
(* C18.  Every record the per-record loop accepts satisfies the            *)
(* constraints of the data model, hence every NOT NULL and CHECK           *)
(* constraint of the table: the identity is a non-empty text,              *)
(* origin_country is present, last_contact is an integer, longitude,       *)
(* latitude and true_track are absent or in range, on_ground and spi are   *)
(* 0 or 1, squawk is absent or of 4 characters, position_source is absent  *)
(* or one of 0, 1, 2, and fetch_time is present; the store raises no       *)
(* constraint violation for what the loop produced.                        *)
(***************************************************************************)
AbsentOrWithin(lo, v, hi) ==
    v = <<"none">> \/ (v[1] \in {"int", "float"} /\ lo <= v[2] /\ v[2] <= hi)

SatisfiesDataModel(r) ==
    /\ r.icao24[1] = "str" /\ r.icao24[2] # <<>>
    /\ r.origin_country # <<"none">>
    /\ r.last_contact[1] = "int"
    /\ AbsentOrWithin(-180, r.longitude, 180)
    /\ AbsentOrWithin(-90, r.latitude, 90)
    /\ AbsentOrWithin(0, r.true_track, 360)
    /\ r.on_ground \in {<<"int", 0>>, <<"int", 1>>}
    /\ r.spi \in {<<"int", 0>>, <<"int", 1>>}
    /\ r.squawk = <<"none">> \/ (r.squawk[1] = "str" /\ Len(r.squawk[2]) = 4)
    /\ r.position_source \in
            {<<"none">>, <<"int", 0>>, <<"int", 1>>, <<"int", 2>>}
    /\ r.fetch_time # <<"none">>

C18_AcceptedSatisfiesConstraints ==
    /\ \A i \in RecordIndexes : SatisfiesDataModel(records_to_insert[i])
    /\ outage \/ "Database error" \notin log

(***************************************************************************)
(* C19.  Every rejection is counted: once the per-record loop has run on   *)
(* a fetched batch, the number of records handed to the store plus the     *)
(* skipped counter equals the number of raw observations of the batch,     *)
(* those with fewer than 17 fields included.                               *)
(***************************************************************************)
C19_EveryObservationCounted ==
    (Processed /\ data # None) =>
        Len(records_to_insert) + skipped = Len(Batch)

(***************************************************************************)
(* C20.  First-seen preservation under insert-or-ignore: a row that was    *)
(* committed before a cycle is in the table, with every value (fetch_time  *)
(* included) as it was, at every point of that cycle, whatever the cycle   *)
(* fetches and however it ends; the rows a cycle adds have keys the table  *)
(* did not hold.  No step ever removes or changes a committed row.         *)
(***************************************************************************)
C20_FirstSeenPreserved ==
    policy = "ignore" =>
        /\ pre \subseteq store
        /\ pre \subseteq txn
        /\ \A x \in (store \cup txn) \ pre :
                \A y \in pre : KeyOfRow(y) # KeyOfRow(x)

\* a committed cycle fetched the refreshed observation of a key written by
\* an earlier cycle, and a new key: the old row stands, the new key is added
C20_Witness ==
    /\ policy = "ignore"
    /\ Committed
    /\ Batch = <<ObsA2, ObsB>>
    /\ \E x \in pre :
            /\ KeyOfRow(x) = KeyOfObs(ObsA)
            /\ x.velocity = ObsA[10]
            /\ x.fetch_time # fetch_time
            /\ x \in store
    /\ \E x \in store \ pre :
            KeyOfRow(x) = KeyOfObs(ObsB) /\ x.fetch_time = fetch_time

(***************************************************************************)
(* C21.  Two instances of the script run against the same database with    *)
(* their steps interleaved in any order.  The table never holds two rows   *)
(* of one (icao24, last_contact); the committed table changes only by a    *)
(* commit, which makes the whole batch of the committing instance present  *)
(* at once; no key once committed disappears; the batch committed last is  *)
(* wholly present, and under insert-or-update the row of each of its keys  *)
(* carries the attributes that batch gave it, whatever the other instance  *)
(* had written for that key.                                               *)
(***************************************************************************)
\* the record of the batch that a commit leaves in the row of its key: the
\* last one of the batch with that key
LastOfKey(batch, i) ==
    \A j \in (i + 1)..Len(batch) : KeyOfRow(batch[j]) # KeyOfRow(batch[i])

WhollyPresent(batch, table) ==
    \A i \in 1..Len(batch) :
        /\ SatisfiesDataModel(batch[i]) =>
                \E x \in table : KeyOfRow(x) = KeyOfRow(batch[i])
        /\ (policy = "update" /\ LastOfKey(batch, i)) => batch[i] \in table

C21_ConcurrentInstancesAtomic ==
    /\ [](\A x, y \in store : KeyOfRow(x) = KeyOfRow(y) => x = y)
    /\ [](WhollyPresent(lastc, store))
    /\ [][store' # store =>
            \/ pc = "commit" /\ pc' = "sleep" /\ lastc' = records_to_insert
            \/ pc2 = "commit" /\ pc2' = "idle" /\ lastc' = records2]_vars
    /\ [][\A x \in store : \E y \in store' : KeyOfRow(y) = KeyOfRow(x)]_vars

\* in one interval the second instance committed the refreshed observation
\* of a key and a new key, and the first instance committed the older
\* observation of the same key after it: the row carries the first
\* instance's values, next to the row only the second instance wrote
C21_Witness ==
    /\ policy = "update"
    /\ now = 0
    /\ Committed
    /\ Batch = <<ObsA>>
    /\ lastc = records_to_insert
    /\ pc2 = "idle" /\ next2 = 1
    /\ \E x \in store : KeyOfRow(x) = KeyOfObs(ObsB)
    /\ \E x \in store : KeyOfRow(x) = KeyOfObs(ObsA) /\ x.velocity = ObsA[10]
    /\ Cardinality(store) = 2

====
